---- MODULE Spec2Model ----
(***************************************************************************)
(* Model of ztkent/snake: the top-level controller (Game.Run and the       *)
(* screen routines), the play loop Game.StartGame with its fixed-interval  *)
(* tick, and the spawn scheduler Game.spawnFoodAndBombs.                   *)
(*                                                                         *)
(* Positions are pixel coordinates <<x, y>>, headings are unit vectors     *)
(* <<dx, dy>>.  Time is counted in units of 1/30 s (float32 rounding is    *)
(* not modelled); the clock (rl.GetTime) advances only when a frame ends   *)
(* (rl.EndDrawing), which is also where raylib samples the input of the    *)
(* next frame.  rl.WindowShouldClose is an input of its own: the exit key  *)
(* of raylib is not modelled.                                              *)
(***************************************************************************)
EXTENDS Integers, Sequences, FiniteSets, TLC

(* ------------------------------ bounds --------------------------------- *)
\* the screen is 2*HalfW cells wide and 2*HalfH cells (plus HeightRem) high
HalfW == 3
HalfH == 1
\* clock readings explored: at most MaxStalls long stalls, and at most
\* MaxFine units of short frames
MaxStalls == 1
MaxFine == 4
\* final points and durations of the sessions fed to the high-score ledger
\* on its own
MaxPoints == 2
MaxDuration == 2
\* rows of the files loaded at startup on their own
MaxRows == 3

(* ------------------------- program constants --------------------------- *)
gridSize == 20
maxFoodCount == 6
\* 450 = 22 * 20 + 10: the screen height is not a whole number of cells
HeightRem == 10
\* deltaTime >= 1.0/15.0: the tick interval, two time units of 1/30 s
TickInterval == 2

screenWidth == 2 * HalfW * gridSize
screenHeight == 2 * HalfH * gridSize + HeightRem

\* int(currentGameTime/10): ten seconds are 150 tick intervals
FoodPeriod == 150 * TickInterval
\* a tenth of a second, the unit a saved duration is written in
UnitsPerTenth == (15 * TickInterval) \div 10

maxHighScores == 3

(* ------------------------------ headings ------------------------------- *)
DirUp == <<0, -1>>
DirDown == <<0, 1>>
DirLeft == <<-1, 0>>
DirRight == <<1, 0>>
Directions == {DirUp, DirDown, DirLeft, DirRight}
Opposite(d) == <<-d[1], -d[2]>>

(* --------------------------- Grid & Geometry --------------------------- *)
\* the negative branch forgetting to subtract the cell size
wrapAxisMut(c, bound, size) ==
    IF c >= bound THEN 0
    ELSE IF c < 0 THEN bound
    ELSE c

wrapAxis(c, bound, size) ==
    IF c >= bound THEN 0
    ELSE IF c < 0 THEN bound - size
    ELSE c

wrapPosition(pos, size) ==
    <<wrapAxis(pos[1], screenWidth, size), wrapAxis(pos[2], screenHeight, size)>>

\* raylib CheckCollisionRecs on two axis-aligned squares of side size
CheckCollisionRecs(a, asize, b, bsize) ==
    /\ a[1] < b[1] + bsize
    /\ a[1] + asize > b[1]
    /\ a[2] < b[2] + bsize
    /\ a[2] + asize > b[2]

\* the self-collision test leaving out the tail segment
checkSelfCollisionMut(head, segs) ==
    \E i \in 2..(Len(segs) - 1) : head[1] = segs[i][1] /\ head[2] = segs[i][2]

checkSelfCollision(head, segs) ==
    \E i \in 2..Len(segs) : head[1] = segs[i][1] /\ head[2] = segs[i][2]

checkFoodCollision(head, size, food) ==
    CheckCollisionRecs(head, size, food, gridSize)

checkBombCollision(head, size, bomb) ==
    CheckCollisionRecs(head, size, bomb, gridSize)

newHeadOf(segs, dir, size) ==
    <<segs[1][1] + dir[1] * size, segs[1][2] + dir[2] * size>>

(* ------------------------- high-score ledger --------------------------- *)
\* A HighScore is [Score, Duration, Date]; Duration is in clock units in
\* memory and in tenths of a second in the file.  Date is the day of the
\* admission: Today for every entry this run of the program admits, Earlier
\* for the entries a file of an earlier day holds.
Today == "today"
Earlier == "earlier"

\* the comparison ranking equal points by the longer duration
HighScoreLessMut(a, b) ==
    IF a.Score = b.Score THEN a.Duration > b.Duration ELSE a.Score > b.Score

\* the less function given to sort.Slice
HighScoreLess(a, b) ==
    IF a.Score = b.Score THEN a.Duration < b.Duration ELSE a.Score > b.Score

Swap(s, a, b) == [s EXCEPT ![a] = s[b], ![b] = s[a]]

\* sort.Slice on a slice shorter than 12 is an insertion sort: entry j
\* moves down while it is less than the entry before it
RECURSIVE InsertDown(_, _)
InsertDown(s, j) ==
    IF j > 1 /\ HighScoreLess(s[j], s[j - 1])
    THEN InsertDown(Swap(s, j, j - 1), j - 1)
    ELSE s

RECURSIVE InsertionSort(_, _)
InsertionSort(s, k) ==
    IF k > Len(s) THEN s ELSE InsertionSort(InsertDown(s, k), k + 1)

SortSlice(s) == InsertionSort(s, 2)

\* the ledger never cut to its capacity
TruncatedMut(s) == s

\* scores[:maxHighScores] when the slice is longer
Truncated(s) == IF Len(s) > maxHighScores THEN SubSeq(s, 1, maxHighScores) ELSE s

\* the new entry appended and the sort left out
UpdateHighScoresMut(scores, newScore) == Truncated(Append(scores, newScore))

UpdateHighScores(scores, newScore) == Truncated(SortSlice(Append(scores, newScore)))

\* equal points admitted too
IsHighScoreMut(score, scores) ==
    IF Len(scores) < maxHighScores
    THEN TRUE
    ELSE score >= scores[Len(scores)].Score

IsHighScore(score, scores) ==
    IF Len(scores) < maxHighScores
    THEN TRUE
    ELSE score > scores[Len(scores)].Score

\* fmt.Sprintf("%.1f", d): seconds rounded to the nearest tenth (a whole
\* number of clock units is never half-way between two tenths)
FormatDuration(d) == (d + UnitsPerTenth \div 2) \div UnitsPerTenth
\* strconv.ParseFloat of a duration written by FormatDuration
ParseDuration(tenths) == tenths * UnitsPerTenth

\* A row of highscores.csv: Fields is its number of fields, ScoreOk and
\* DurationOk tell whether strconv.Atoi and strconv.ParseFloat accept the
\* first two, Score and Duration are the values they then give.
Row(n, sok, dok, p, tenths, day) ==
    [Fields |-> n, ScoreOk |-> sok, DurationOk |-> dok,
     Score |-> p, Duration |-> tenths, Date |-> day]

\* the store: no file, a file that cannot be opened, or a file with rows
StoreMissing == "missing"
StoreUnreadable == "unreadable"
StorePresent == "present"

\* the duration written with its fraction cut off
FormatRowMut(e) == Row(3, TRUE, TRUE, e.Score, e.Duration \div UnitsPerTenth, e.Date)

\* lines 923-927: the record written for an entry
FormatRow(e) == Row(3, TRUE, TRUE, e.Score, FormatDuration(e.Duration), e.Date)

\* the rows SaveHighScores writes
SaveHighScores(scores) == [k \in 1..Len(scores) |-> FormatRow(scores[k])]

\* csv.Reader.ReadAll: the first row sets the number of fields and a row
\* with another number is an error
ReadAllFails(file) == \E k \in 1..Len(file) : file[k].Fields # file[1].Fields

\* lines 891-901: the rows the loop does not skip
WellFormed(row) == row.Fields = 3 /\ row.ScoreOk /\ row.DurationOk

\* lines 902-906
ParseRow(row) ==
    [Score |-> row.Score, Duration |-> ParseDuration(row.Duration), Date |-> row.Date]

\* lines 890-907
ParsedRows(file) ==
    LET kept == SelectSeq(file, WellFormed)
    IN  [k \in 1..Len(kept) |-> ParseRow(kept[k])]

\* LoadHighScores returns an error
LoadFails(store, file) ==
    \/ store = StoreUnreadable
    \/ store = StorePresent /\ ReadAllFails(file)

\* the scores LoadHighScores returns when it returns no error
LoadHighScores(store, file) == IF store = StoreMissing THEN <<>> ELSE ParsedRows(file)

\* a failed load leaving the rows it could parse
NewGameScoresMut(store, file) == ParsedRows(file)

\* NewGame, lines 11-14
NewGameScores(store, file) ==
    IF LoadFails(store, file) THEN <<>> ELSE LoadHighScores(store, file)

\* a full file of an earlier day
FullFile ==
    << Row(3, TRUE, TRUE, 1, 1, Earlier),
       Row(3, TRUE, TRUE, 0, 0, Earlier),
       Row(3, TRUE, TRUE, 0, 1, Earlier) >>

\* highscores.csv when the program starts: absent, or full
InitialFiles == {<<>>, FullFile}
\* the store of a file of InitialFiles
StoreOf(file) == IF file = <<>> THEN StoreMissing ELSE StorePresent

(* ------------------------------- input --------------------------------- *)
\* One sampled input per frame.  keys: keys whose press edge falls in the
\* frame (rl.IsKeyPressed); escReleased: rl.IsKeyReleased(KeyEscape);
\* mouseDown: rl.IsMouseButtonDown; mouseY: the cursor's y (the cursor's x is
\* taken at the screen centre, inside every button's x range); close:
\* rl.WindowShouldClose.
KeyUp == "Up"
KeyDown == "Down"
KeyLeft == "Left"
KeyRight == "Right"
KeyEscape == "Esc"
ArrowKeys == {KeyUp, KeyDown, KeyLeft, KeyRight}

buttonHeight == 50
buttonSpacing == 20
\* top edges of the buttons of each screen
MainStartY == screenHeight \div 2 - (buttonHeight * 4 + buttonSpacing * 3) \div 2
MainButtonY(k) == MainStartY + k * (buttonHeight + buttonSpacing)
SettingsStartY == screenHeight \div 2 - (buttonHeight * 2 + buttonSpacing) \div 2
SettingsBackY == SettingsStartY + buttonHeight + buttonSpacing
PauseResumeY == (screenHeight * 6) \div 10
PauseQuitY == PauseResumeY + buttonHeight + buttonSpacing
GameOverExitY == (screenHeight * 7) \div 10
HighScoresBackY == (screenHeight * 8) \div 10

\* MenuButton.IsHovered, rl.CheckCollisionPointRec on the y axis
IsHovered(top, my) == my >= top /\ my < top + buttonHeight

\* a cursor position over no button of any screen
NoMouseY == MainStartY - 1
MouseYs ==
    {MainButtonY(k) : k \in 0..3} \cup
    {SettingsStartY, SettingsBackY, PauseResumeY, PauseQuitY,
     GameOverExitY, HighScoresBackY}

MkInput(ks, er, md, my, cl) ==
    [keys |-> ks, escReleased |-> er, mouseDown |-> md, mouseY |-> my, close |-> cl]

EmptyInput == MkInput({}, FALSE, FALSE, NoMouseY, FALSE)

\* the key sets explored: none, one key, two arrow keys in one frame, or
\* the escape key with the up key
KeySets ==
    {{}} \cup {{k} : k \in ArrowKeys \cup {KeyEscape}} \cup
    {{a, b} : a, b \in ArrowKeys} \cup {{KeyEscape, KeyUp}}

\* the last input is a click on the Start button of the main menu in a
\* frame in which the escape key is pressed too
Inputs ==
    {MkInput(ks, FALSE, FALSE, NoMouseY, FALSE) : ks \in KeySets} \cup
    {MkInput({}, TRUE, FALSE, NoMouseY, FALSE)} \cup
    {MkInput({}, FALSE, md, my, FALSE) : md \in BOOLEAN, my \in MouseYs} \cup
    {MkInput({}, FALSE, FALSE, NoMouseY, TRUE)} \cup
    {MkInput({KeyEscape}, FALSE, TRUE, MainButtonY(0), FALSE)}

\* frameInput holds the input of the frame still running, or nothing when
\* the running loop is waiting in rl.EndDrawing: the next step then samples
\* a new input and a new clock value
Poll == {}
Pending(i) == {i}

(* ------------------------------- clock --------------------------------- *)
\* frame durations explored: a short frame, a frame of one tick interval,
\* and a stall of one food period
FrameTimes == {1, TickInterval, FoodPeriod}
ClockValues == {s * FoodPeriod + f : s \in 0..MaxStalls, f \in 0..MaxFine}

(* ------------------------------- state --------------------------------- *)
StateMainMenu == "MainMenu"
StateGame == "Play"
StateSettings == "Settings"
StateGameOver == "GameOver"
StatePaused == "Paused"
StateHighScores == "HighScores"
GameStates ==
    {StateMainMenu, StateGame, StateSettings, StateGameOver, StatePaused,
     StateHighScores}

VARIABLES
    state,            \* Game.state
    running,          \* Game.running
    pc,               \* the loop control is in: "Run", a screen routine,
                      \* the spawn loops, or "Exit"
    frameInput,       \* Pending(input of the frame still running), or Poll
    now,              \* rl.GetTime()
    buttonReleased,   \* MenuState.buttonReleased
    segments,         \* snake.segments, head first
    direction,        \* snake.direction
    foods,            \* foods (positions)
    bombs,            \* bombs (positions)
    points,           \* Game.score.points
    duration,         \* Game.score.duration
    startTime,        \* Game.score.startTime
    lastUpdateTime,   \* StartGame local
    pauseStartTime,   \* StartGame local
    totalPauseTime,   \* StartGame local
    occupied,         \* spawnFoodAndBombs local: occupied cell keys
    foodCount,        \* spawnFoodAndBombs local
    bombCount,        \* spawnFoodAndBombs local
    highScores,       \* Game.highScores
    savedScores,      \* the rows of highscores.csv
    storeState        \* whether highscores.csv exists and can be opened

ctlVars == <<state, running, pc, frameInput, now, buttonReleased>>
snakeVars == <<segments, direction, foods, bombs>>
scoreVars == <<points, duration, startTime>>
timeVars == <<lastUpdateTime, pauseStartTime, totalPauseTime>>
spawnVars == <<occupied, foodCount, bombCount>>
sessionVars == <<snakeVars, scoreVars, timeVars, spawnVars>>
ledgerVars == <<highScores, savedScores, storeState>>
vars == <<ctlVars, sessionVars, ledgerVars>>

\* NewGame, and main up to the call of Run
Init ==
    /\ state = StateMainMenu
    /\ running = TRUE
    /\ pc = "Run"
    /\ frameInput = Pending(EmptyInput)
    /\ now = 0
    /\ buttonReleased = TRUE
    /\ segments = <<>>
    /\ direction = DirRight
    /\ foods = <<>>
    /\ bombs = <<>>
    /\ points = 0
    /\ duration = 0
    /\ startTime = 0
    /\ lastUpdateTime = 0
    /\ pauseStartTime = 0
    /\ totalPauseTime = 0
    /\ occupied = {}
    /\ foodCount = 0
    /\ bombCount = 0
    /\ savedScores \in InitialFiles
    /\ storeState = StoreOf(savedScores)
    /\ highScores = NewGameScores(storeState, savedScores)

\* The input i and clock reading t a loop iteration works with: sampled
\* anew when the previous iteration ended in rl.EndDrawing, else those of
\* the frame still running.
FrameStart(i, t) ==
    IF frameInput = Poll
    THEN i \in Inputs /\ t \in ClockValues /\ (t - now) \in FrameTimes
    ELSE i \in frameInput /\ t = now

\* the click reported whatever buttonReleased holds
ClickResultMut(i) == i.mouseDown

\* MenuState.handleButtonClick: the value returned
ClickResult(i) == i.mouseDown /\ buttonReleased
\* MenuState.handleButtonClick: buttonReleased afterwards
ClickReleased(i) == IF i.mouseDown THEN FALSE ELSE TRUE

(* --------------------------- Game.StartGame ---------------------------- *)
\* a session started without resetting the score
StartGameInitMut(t) ==
    /\ points' = points
    /\ startTime' = t
    /\ duration' = duration
    /\ segments' = << <<screenWidth \div 2, screenHeight \div 2>>,
                      <<screenWidth \div 2 - gridSize, screenHeight \div 2>> >>
    /\ direction' = DirRight
    /\ foods' = <<>>
    /\ bombs' = <<>>
    /\ lastUpdateTime' = 0
    /\ pauseStartTime' = 0
    /\ totalPauseTime' = 0

\* lines 117-139: a fresh session
StartGameInit(t) ==
    /\ points' = 0
    /\ startTime' = t
    /\ duration' = 0
    /\ segments' = << <<screenWidth \div 2, screenHeight \div 2>>,
                      <<screenWidth \div 2 - gridSize, screenHeight \div 2>> >>
    /\ direction' = DirRight
    /\ foods' = <<>>
    /\ bombs' = <<>>
    /\ lastUpdateTime' = 0
    /\ pauseStartTime' = 0
    /\ totalPauseTime' = 0

\* StartGame has returned: its locals (snake, foods, bombs, lastUpdateTime,
\* pauseStartTime, totalPauseTime) no longer exist; Game.score stays
StartGameReturned ==
    /\ segments' = <<>>
    /\ direction' = DirRight
    /\ foods' = <<>>
    /\ bombs' = <<>>
    /\ lastUpdateTime' = 0
    /\ pauseStartTime' = 0
    /\ totalPauseTime' = 0
    /\ UNCHANGED scoreVars

(* ----------------------- high-score admission -------------------------- *)
\* the entry recorded with a duration of zero
NewScoreMut(p, d) == [Score |-> p, Duration |-> 0, Date |-> Today]

\* openGameOverScreen, lines 476-480
NewScore(p, d) == [Score |-> p, Duration |-> d, Date |-> Today]

\* openGameOverScreen, lines 473-483, before its loop
GameOverAdmission ==
    IF IsHighScore(points, highScores)
    THEN /\ highScores' = UpdateHighScores(highScores, NewScore(points, duration))
         /\ savedScores' = SaveHighScores(highScores')
         /\ storeState' = StorePresent
    ELSE UNCHANGED ledgerVars

(* ------------------------------ Game.Run ------------------------------- *)
\* The screen routine Run's switch enters for a state; StatePaused has no
\* case, so Run tests its loop condition again.
RunTarget(st) ==
    CASE st = StateMainMenu -> "MainMenu"
      [] st = StateSettings -> "Settings"
      [] st = StateGame -> "Game"
      [] st = StateGameOver -> "GameOver"
      [] st = StateHighScores -> "HighScores"
      [] OTHER -> "Run"

Run ==
    /\ pc = "Run"
    /\ \E i \in Inputs, t \in ClockValues :
        /\ FrameStart(i, t)
        /\ now' = t
        /\ IF ~running \/ i.close
           THEN /\ pc' = "Exit"
                /\ StartGameReturned
                /\ UNCHANGED ledgerVars
           ELSE /\ pc' = RunTarget(state)
                /\ IF state = StateGame
                   THEN StartGameInit(t)
                   ELSE StartGameReturned
                /\ IF state = StateGameOver
                   THEN GameOverAdmission
                   ELSE UNCHANGED ledgerVars
    /\ UNCHANGED <<state, running, frameInput, buttonReleased, spawnVars>>

(* --------------------------- screen routines --------------------------- *)
\* openMainMenu with the Settings button setting the pause state
MainMenuTargetMut(k) ==
    CASE k = 0 -> StateGame
      [] k = 1 -> StateHighScores
      [] OTHER -> StatePaused

\* the state openMainMenu sets when button k (0 Start, 1 High Scores,
\* 2 Settings) is clicked
MainMenuTarget(k) ==
    CASE k = 0 -> StateGame
      [] k = 1 -> StateHighScores
      [] OTHER -> StateSettings

\* one iteration of openMainMenu's loop
openMainMenu ==
    /\ pc = "MainMenu"
    /\ \E i \in Inputs, t \in ClockValues :
        /\ FrameStart(i, t)
        /\ now' = t
        /\ IF i.close
           THEN \* the loop condition fails: return false
                /\ running' = FALSE
                /\ pc' = "Run"
                /\ frameInput' = Pending(i)
                /\ UNCHANGED <<state, buttonReleased>>
           ELSE IF \E k \in 0..3 : IsHovered(MainButtonY(k), i.mouseY)
           THEN LET k == CHOOSE b \in 0..3 : IsHovered(MainButtonY(b), i.mouseY)
                IN  /\ buttonReleased' = ClickReleased(i)
                    /\ IF ClickResult(i)
                       THEN /\ pc' = "Run"
                            /\ frameInput' = Pending(i)
                            /\ IF k = 3
                               THEN running' = FALSE /\ UNCHANGED state
                               ELSE running' = TRUE /\ state' = MainMenuTarget(k)
                       ELSE /\ frameInput' = Poll
                            /\ UNCHANGED <<state, running, pc>>
           ELSE /\ frameInput' = Poll
                /\ UNCHANGED <<state, running, pc, buttonReleased>>
    /\ UNCHANGED <<sessionVars, ledgerVars>>

\* the escape test of a screen answering a window-close request as well
EscapeLeavesMut(i) == i.escReleased \/ i.close

\* rl.IsKeyReleased(rl.KeyEscape), the first statement of the loops of
\* openSettingsMenu and openHighScoresScreen
EscapeLeaves(i) == i.escReleased

\* one iteration of openSettingsMenu's loop (the volume control is left out)
openSettingsMenu ==
    /\ pc = "Settings"
    /\ \E i \in Inputs, t \in ClockValues :
        /\ FrameStart(i, t)
        /\ now' = t
        /\ IF EscapeLeaves(i)
           THEN /\ state' = StateMainMenu
                /\ pc' = "Run"
                /\ frameInput' = Pending(i)
                /\ UNCHANGED buttonReleased
           ELSE IF IsHovered(SettingsBackY, i.mouseY)
           THEN /\ buttonReleased' = ClickReleased(i)
                /\ IF ClickResult(i)
                   THEN /\ state' = StateMainMenu
                        /\ pc' = "Run"
                        /\ frameInput' = Pending(i)
                   ELSE /\ frameInput' = Poll
                        /\ UNCHANGED <<state, pc>>
           ELSE /\ frameInput' = Poll
                /\ UNCHANGED <<state, pc, buttonReleased>>
    /\ UNCHANGED <<running, sessionVars, ledgerVars>>

\* one iteration of openHighScoresScreen's loop
openHighScoresScreen ==
    /\ pc = "HighScores"
    /\ \E i \in Inputs, t \in ClockValues :
        /\ FrameStart(i, t)
        /\ now' = t
        /\ IF EscapeLeaves(i)
           THEN /\ state' = StateMainMenu
                /\ pc' = "Run"
                /\ frameInput' = Pending(i)
                /\ UNCHANGED buttonReleased
           ELSE IF IsHovered(HighScoresBackY, i.mouseY)
           THEN /\ buttonReleased' = ClickReleased(i)
                /\ IF ClickResult(i)
                   THEN /\ state' = StateMainMenu
                        /\ pc' = "Run"
                        /\ frameInput' = Pending(i)
                   ELSE /\ frameInput' = Poll
                        /\ UNCHANGED <<state, pc>>
           ELSE /\ frameInput' = Poll
                /\ UNCHANGED <<state, pc, buttonReleased>>
    /\ UNCHANGED <<running, sessionVars, ledgerVars>>

\* one iteration of openGameOverScreen's loop
openGameOverScreen ==
    /\ pc = "GameOver"
    /\ \E i \in Inputs, t \in ClockValues :
        /\ FrameStart(i, t)
        /\ now' = t
        /\ IF IsHovered(GameOverExitY, i.mouseY)
           THEN /\ buttonReleased' = ClickReleased(i)
                /\ IF ClickResult(i)
                   THEN /\ state' = StateMainMenu
                        /\ pc' = "Run"
                        /\ frameInput' = Pending(i)
                   ELSE /\ frameInput' = Poll
                        /\ UNCHANGED <<state, pc>>
           ELSE /\ frameInput' = Poll
                /\ UNCHANGED <<state, pc, buttonReleased>>
    /\ UNCHANGED <<running, sessionVars, ledgerVars>>

(* --------------------------- spawn scheduler --------------------------- *)
gridWidth == screenWidth \div gridSize
gridHeight == screenHeight \div gridSize
\* the cells rl.GetRandomValue can draw
GridCells ==
    {<<cx * gridSize, cy * gridSize>> : cx \in 0..(gridWidth - 1), cy \in 0..(gridHeight - 1)}

\* the food count without the first item
FoodCountAtMut(gameTime) ==
    IF gameTime \div FoodPeriod > maxFoodCount
    THEN maxFoodCount
    ELSE gameTime \div FoodPeriod

\* lines 346-350
FoodCountAt(gameTime) ==
    IF gameTime \div FoodPeriod + 1 > maxFoodCount
    THEN maxFoodCount
    ELSE gameTime \div FoodPeriod + 1

\* the bomb count rounding up, without the test foodCount > 1
BombCountForMut(fc) == (fc + 1) \div 2

\* lines 352-355
BombCountFor(fc) == IF fc > 1 THEN fc \div 2 ELSE 0

\* lines 358-362: the keys of the snake's segments
SegmentKeys(segs) == {segs[k] : k \in 1..Len(segs)}

\* marking only the cell of the food itself
FoodMarksMut(c) == {c}

\* lines 379-389: the keys marked when food is placed at cell c
FoodMarks(c) ==
    {<<c[1] + dx * gridSize, c[2] + dy * gridSize>> : dx \in -1..1, dy \in -1..1}

\* lines 236-239: the end of a tick; the frame is then drawn
FinishTick ==
    /\ lastUpdateTime' = now
    /\ duration' = now - startTime - totalPauseTime
    /\ pc' = "Game"
    /\ occupied' = {}

\* one iteration of the food loop, lines 369-391
SpawnFoodStep ==
    /\ pc = "SpawnFood"
    /\ Len(foods) < foodCount
    /\ \E c \in GridCells :
        IF c \notin occupied
        THEN /\ foods' = Append(foods, c)
             /\ IF Len(foods) + 1 < foodCount
                THEN /\ occupied' = occupied \cup FoodMarks(c)
                     /\ UNCHANGED <<pc, lastUpdateTime, duration>>
                ELSE IF bombCount > 0
                THEN /\ occupied' = occupied \cup FoodMarks(c)
                     /\ pc' = "SpawnBombs"
                     /\ UNCHANGED <<lastUpdateTime, duration>>
                ELSE FinishTick
             /\ UNCHANGED <<state, running, frameInput, now, buttonReleased,
                            segments, direction, bombs, points, startTime,
                            pauseStartTime, totalPauseTime, foodCount, bombCount,
                            ledgerVars>>
        ELSE UNCHANGED vars

\* one iteration of the bomb loop, lines 395-407
SpawnBombStep ==
    /\ pc = "SpawnBombs"
    /\ Len(bombs) < bombCount
    /\ \E c \in GridCells :
        IF c \notin occupied
        THEN /\ bombs' = Append(bombs, c)
             /\ IF Len(bombs) + 1 < bombCount
                THEN /\ occupied' = occupied \cup {c}
                     /\ UNCHANGED <<pc, lastUpdateTime, duration>>
                ELSE FinishTick
             /\ UNCHANGED <<state, running, frameInput, now, buttonReleased,
                            segments, direction, foods, points, startTime,
                            pauseStartTime, totalPauseTime, foodCount, bombCount,
                            ledgerVars>>
        ELSE UNCHANGED vars

(* ------------------------------ play loop ------------------------------ *)
\* lines 166-177: the four key tests, in the order of the code
ApplyUp(d, ks) == IF KeyUp \in ks /\ d[2] # 1 THEN DirUp ELSE d
ApplyDown(d, ks) == IF KeyDown \in ks /\ d[2] # -1 THEN DirDown ELSE d
\* the left-key test comparing against the wrong sign
ApplyLeftMut(d, ks) == IF KeyLeft \in ks /\ d[1] # -1 THEN DirLeft ELSE d
ApplyLeft(d, ks) == IF KeyLeft \in ks /\ d[1] # 1 THEN DirLeft ELSE d
ApplyRight(d, ks) == IF KeyRight \in ks /\ d[1] # -1 THEN DirRight ELSE d
ApplyKeys(d, ks) == ApplyRight(ApplyLeft(ApplyDown(ApplyUp(d, ks), ks), ks), ks)

\* the hazard test leaving out the first hazard
HitsBombMut(head, bs) == \E k \in 2..Len(bs) : checkBombCollision(head, gridSize, bs[k])

\* lines 201-208
HitsBomb(head, bs) == \E k \in 1..Len(bs) : checkBombCollision(head, gridSize, bs[k])

\* lines 211-220: index of the first food hit, 0 when none
EatenIndex(head, fs) ==
    IF \E k \in 1..Len(fs) : checkFoodCollision(head, gridSize, fs[k])
    THEN CHOOSE k \in 1..Len(fs) :
            /\ checkFoodCollision(head, gridSize, fs[k])
            /\ \A j \in 1..(k - 1) : ~checkFoodCollision(head, gridSize, fs[j])
    ELSE 0

\* the removal cutting the slice at the eaten item
RemoveAtMut(fs, k) == SubSeq(fs, 1, k - 1)

\* line 224
RemoveAt(fs, k) == SubSeq(fs, 1, k - 1) \o SubSeq(fs, k + 1, Len(fs))

\* the food branch forgetting to prepend the new head
GrownBodyMut(head, segs, eaten) == segs

\* line 216: the body after the food test
GrownBody(head, segs, eaten) == IF eaten > 0 THEN <<head>> \o segs ELSE segs

\* line 233
MovedBody(head, segs) == <<head>> \o SubSeq(segs, 1, Len(segs) - 1)

\* the regeneration started while one food item is left
NoFoodLeftMut(fs) == Len(fs) <= 1

\* line 228: the test that calls spawnFoodAndBombs
NoFoodLeft(fs) == Len(fs) = 0

\* lines 183-239: one tick with heading d at clock reading t
Tick(d, t, i) ==
    LET newHead == wrapPosition(newHeadOf(segments, d, gridSize), gridSize)
        eaten == EatenIndex(newHead, foods)
        segs1 == GrownBody(newHead, segments, eaten)
        foods1 == IF eaten > 0 THEN RemoveAt(foods, eaten) ELSE foods
    IN  IF checkSelfCollision(newHead, segments) \/ HitsBomb(newHead, bombs)
        THEN /\ state' = StateGameOver
             /\ pc' = "Run"
             /\ frameInput' = Pending(i)
             /\ UNCHANGED <<segments, foods, bombs, scoreVars, timeVars, spawnVars>>
        ELSE /\ points' = IF eaten > 0 THEN points + 1 ELSE points
             /\ frameInput' = Poll
             /\ IF NoFoodLeft(foods1)
                THEN \* spawnFoodAndBombs, lines 343-366
                     /\ segments' = segs1
                     /\ foodCount' = FoodCountAt(t - startTime - totalPauseTime)
                     /\ bombCount' = BombCountFor(foodCount')
                     /\ occupied' = SegmentKeys(segs1)
                     /\ foods' = <<>>
                     /\ bombs' = <<>>
                     /\ pc' = "SpawnFood"
                     /\ UNCHANGED <<duration, lastUpdateTime>>
                ELSE /\ segments' = MovedBody(newHead, segs1)
                     /\ foods' = foods1
                     /\ lastUpdateTime' = t
                     /\ duration' = t - startTime - totalPauseTime
                     /\ UNCHANGED <<bombs, pc, spawnVars>>
             /\ UNCHANGED <<state, startTime, pauseStartTime, totalPauseTime>>

\* a tick in every frame
TickDueMut(t, last) == t - last >= 1

\* line 182: deltaTime >= 1.0/15.0
TickDue(t, last) == t - last >= TickInterval

\* the pause taken after the key tests of the frame
PauseGameMut(i, t) ==
    /\ state' = StatePaused
    /\ pauseStartTime' = t
    /\ pc' = "Paused"
    /\ frameInput' = Pending(i)
    /\ direction' = ApplyKeys(direction, i.keys)
    /\ UNCHANGED <<running, segments, foods, bombs, scoreVars, lastUpdateTime,
                   totalPauseTime, spawnVars>>

\* lines 149-152: the escape key opens the pause screen
PauseGame(i, t) ==
    /\ state' = StatePaused
    /\ pauseStartTime' = t
    /\ pc' = "Paused"
    /\ frameInput' = Pending(i)
    /\ UNCHANGED <<running, snakeVars, scoreVars, lastUpdateTime,
                   totalPauseTime, spawnVars>>

\* one iteration of StartGame's loop, lines 141-291
StartGame ==
    /\ pc = "Game"
    /\ \E i \in Inputs, t \in ClockValues :
        /\ FrameStart(i, t)
        /\ now' = t
        /\ IF KeyEscape \in i.keys
           THEN PauseGame(i, t)
           ELSE IF i.close
           THEN /\ state' = StateMainMenu
                /\ running' = FALSE
                /\ pc' = "Run"
                /\ frameInput' = Pending(i)
                /\ UNCHANGED sessionVars
           ELSE /\ direction' = ApplyKeys(direction, i.keys)
                /\ running' = running
                /\ IF TickDue(t, lastUpdateTime)
                   THEN Tick(direction', t, i)
                   ELSE /\ frameInput' = Poll
                        /\ UNCHANGED <<state, pc, segments, foods, bombs,
                                       scoreVars, timeVars, spawnVars>>
    /\ UNCHANGED <<buttonReleased, ledgerVars>>

\* resuming without adding the pause to totalPauseTime
ResumeGameMut(i, t) ==
    /\ state' = StateGame
    /\ totalPauseTime' = totalPauseTime
    /\ lastUpdateTime' = t
    /\ pc' = "Game"
    /\ frameInput' = Pending(i)

\* lines 155-158: StartGame after openPauseScreen returned true
ResumeGame(i, t) ==
    /\ state' = StateGame
    /\ totalPauseTime' = totalPauseTime + (t - pauseStartTime)
    /\ lastUpdateTime' = t
    /\ pc' = "Game"
    /\ frameInput' = Pending(i)

\* the quit button returning with the pause state still set
QuitGameMut(i) ==
    /\ state' = StatePaused
    /\ pc' = "Run"
    /\ frameInput' = Pending(i)

\* openPauseScreen's quit button: StartGame returns to Run
QuitGame(i) ==
    /\ state' = StateMainMenu
    /\ pc' = "Run"
    /\ frameInput' = Pending(i)

\* one iteration of openPauseScreen's loop; the escape test at the loop's
\* end runs after rl.EndDrawing, so it reads the input of the next frame
openPauseScreen ==
    /\ pc = "Paused"
    /\ \E i \in Inputs, t \in ClockValues :
        /\ FrameStart(i, t)
        /\ now' = t
        /\ IF frameInput = Poll /\ KeyEscape \in i.keys
           THEN /\ ResumeGame(i, t)
                /\ UNCHANGED buttonReleased
           ELSE IF IsHovered(PauseResumeY, i.mouseY)
           THEN /\ buttonReleased' = ClickReleased(i)
                /\ IF ClickResult(i)
                   THEN ResumeGame(i, t)
                   ELSE /\ frameInput' = Poll
                        /\ UNCHANGED <<state, pc, totalPauseTime, lastUpdateTime>>
           ELSE IF IsHovered(PauseQuitY, i.mouseY)
           THEN /\ buttonReleased' = ClickReleased(i)
                /\ IF ClickResult(i)
                   THEN QuitGame(i)
                   ELSE /\ frameInput' = Poll
                        /\ UNCHANGED <<state, pc>>
                /\ UNCHANGED <<totalPauseTime, lastUpdateTime>>
           ELSE /\ frameInput' = Poll
                /\ UNCHANGED <<state, pc, buttonReleased, totalPauseTime, lastUpdateTime>>
    /\ UNCHANGED <<running, snakeVars, scoreVars, pauseStartTime, spawnVars,
                   ledgerVars>>

(* --------------------------- specification ----------------------------- *)
Next ==
    \/ Run
    \/ openMainMenu
    \/ openSettingsMenu
    \/ openHighScoresScreen
    \/ openGameOverScreen
    \/ openPauseScreen
    \/ StartGame
    \/ SpawnFoodStep
    \/ SpawnBombStep

Spec == Init /\ [][Next]_vars

TypeOK ==
    /\ state \in GameStates
    /\ running \in BOOLEAN
    /\ now \in ClockValues

(* ------------------- heading requests in isolation --------------------- *)
\* lines 165-177 applied to every stored heading and every sampled input
InitKeys ==
    /\ state = StateGame
    /\ running = TRUE
    /\ pc = "keys"
    /\ frameInput \in {Pending(i) : i \in Inputs}
    /\ now = 0
    /\ buttonReleased = TRUE
    /\ segments = <<>>
    /\ direction \in Directions
    /\ foods = <<>>
    /\ bombs = <<>>
    /\ points = 0
    /\ duration = 0
    /\ startTime = 0
    /\ lastUpdateTime = 0
    /\ pauseStartTime = 0
    /\ totalPauseTime = 0
    /\ occupied = {}
    /\ foodCount = 0
    /\ bombCount = 0
    /\ savedScores = <<>>
    /\ storeState = StoreMissing
    /\ highScores = <<>>

HandleInput ==
    /\ pc = "keys"
    /\ \E i \in frameInput : direction' = ApplyKeys(direction, i.keys)
    /\ pc' = "keysDone"
    /\ UNCHANGED <<state, running, frameInput, now, buttonReleased, segments,
                   foods, bombs, scoreVars, timeVars, spawnVars, ledgerVars>>

NextKeys == HandleInput

SpecKeys == InitKeys /\ [][NextKeys]_vars

(* ------------------- the ledger over many sessions --------------------- *)
\* Run enters openGameOverScreen with the final score of a session; the
\* play between two game-overs is reduced to the score it ends with.
InitLedger ==
    /\ state = StateGameOver
    /\ running = TRUE
    /\ pc = "Run"
    /\ frameInput = Pending(EmptyInput)
    /\ now = 0
    /\ buttonReleased = TRUE
    /\ segments = <<>>
    /\ direction = DirRight
    /\ foods = <<>>
    /\ bombs = <<>>
    /\ points \in 0..MaxPoints
    /\ duration \in 0..MaxDuration
    /\ startTime = 0
    /\ lastUpdateTime = 0
    /\ pauseStartTime = 0
    /\ totalPauseTime = 0
    /\ occupied = {}
    /\ foodCount = 0
    /\ bombCount = 0
    /\ savedScores \in InitialFiles
    /\ storeState = StoreOf(savedScores)
    /\ highScores = NewGameScores(storeState, savedScores)

\* the game-over screen is left and the next session ends by a fatal
\* collision with p points after d units of play
PlayAgain ==
    /\ pc = "GameOver"
    /\ \E p \in 0..MaxPoints, d \in 0..MaxDuration :
        /\ points' = p
        /\ duration' = d
    /\ pc' = "Run"
    /\ UNCHANGED <<state, running, frameInput, now, buttonReleased, snakeVars,
                   startTime, timeVars, spawnVars, ledgerVars>>

\* the program is started again (NewGame loads the file) and its first
\* session ends by a fatal collision
Restart ==
    /\ pc = "GameOver"
    /\ highScores' = NewGameScores(storeState, savedScores)
    /\ \E p \in 0..MaxPoints, d \in 0..MaxDuration :
        /\ points' = p
        /\ duration' = d
    /\ pc' = "Run"
    /\ UNCHANGED <<state, running, frameInput, now, buttonReleased, snakeVars,
                   startTime, timeVars, spawnVars, savedScores, storeState>>

NextLedger ==
    \/ Run
    \/ PlayAgain
    \/ Restart

SpecLedger == InitLedger /\ [][NextLedger]_vars

(* ----------------------- the load at startup --------------------------- *)
\* the rows a file may hold: too few fields or three, points and duration
\* that parse or do not
RowKinds ==
    {Row(n, sok, dok, p, 0, Earlier) :
        n \in {2, 3}, sok \in BOOLEAN, dok \in BOOLEAN, p \in 1..2}

FilesOfLength(n) ==
    IF n = 0
    THEN {<<>>}
    ELSE [1..n -> RowKinds]

Files(rows) == UNION {FilesOfLength(n) : n \in 0..rows}

\* before NewGame: any store
InitLoad ==
    /\ state = StateMainMenu
    /\ running = FALSE
    /\ pc = "NewGame"
    /\ frameInput = Pending(EmptyInput)
    /\ now = 0
    /\ buttonReleased = TRUE
    /\ segments = <<>>
    /\ direction = DirRight
    /\ foods = <<>>
    /\ bombs = <<>>
    /\ points = 0
    /\ duration = 0
    /\ startTime = 0
    /\ lastUpdateTime = 0
    /\ pauseStartTime = 0
    /\ totalPauseTime = 0
    /\ occupied = {}
    /\ foodCount = 0
    /\ bombCount = 0
    /\ storeState \in {StoreMissing, StoreUnreadable, StorePresent}
    /\ savedScores \in (IF storeState = StoreMissing THEN {<<>>} ELSE Files(MaxRows))
    /\ highScores = <<>>

\* NewGame, and main up to the call of Run
NewGame ==
    /\ pc = "NewGame"
    /\ highScores' = NewGameScores(storeState, savedScores)
    /\ state' = StateMainMenu
    /\ running' = TRUE
    /\ pc' = "Run"
    /\ UNCHANGED <<frameInput, now, buttonReleased, sessionVars, savedScores,
                   storeState>>

NextLoad == NewGame

SpecLoad == InitLoad /\ [][NextLoad]_vars

(* ------------------- a session after another session ------------------- *)
\* The Start button has just been clicked in the main menu, one food
\* period after the program started; Game.score still holds the points and
\* the duration of the session played before.
StartClick == MkInput({}, FALSE, TRUE, MainButtonY(0), FALSE)

InitReplay ==
    /\ state = StateGame
    /\ running = TRUE
    /\ pc = "Run"
    /\ frameInput = Pending(StartClick)
    /\ now = FoodPeriod
    /\ buttonReleased = FALSE
    /\ segments = <<>>
    /\ direction = DirRight
    /\ foods = <<>>
    /\ bombs = <<>>
    /\ points \in 1..MaxPoints
    /\ duration \in 1..MaxDuration
    /\ startTime = 0
    /\ lastUpdateTime = 0
    /\ pauseStartTime = 0
    /\ totalPauseTime = 0
    /\ occupied = {}
    /\ foodCount = 0
    /\ bombCount = 0
    /\ savedScores = <<>>
    /\ storeState = StoreMissing
    /\ highScores = <<>>

\* the steps of the program from there; the clock values left are all
\* within ten seconds of the start of the session, so no hazard is requested
\* and the settings and high-score screens are not reached
NextReplay ==
    \/ Run
    \/ StartGame
    \/ SpawnFoodStep
    \/ openPauseScreen
    \/ openMainMenu
    \/ openGameOverScreen

SpecReplay == InitReplay /\ [][NextReplay]_vars

(* -------------------- the click latch on its own ----------------------- *)
\* handleButtonClick called frame after frame by whichever menu screen is
\* open, under every course of the mouse.  pc is "clicked" when the last
\* call returned true (the screen routine is returning and another screen
\* opens in the same frame), else "frame".
InitClick ==
    /\ state = StateMainMenu
    /\ running = TRUE
    /\ pc = "frame"
    /\ frameInput = Pending(EmptyInput)
    /\ now = 0
    /\ buttonReleased = TRUE
    /\ segments = <<>>
    /\ direction = DirRight
    /\ foods = <<>>
    /\ bombs = <<>>
    /\ points = 0
    /\ duration = 0
    /\ startTime = 0
    /\ lastUpdateTime = 0
    /\ pauseStartTime = 0
    /\ totalPauseTime = 0
    /\ occupied = {}
    /\ foodCount = 0
    /\ bombCount = 0
    /\ savedScores = <<>>
    /\ storeState = StoreMissing
    /\ highScores = <<>>

\* the inputs that touch no key
MouseInputs == {i \in Inputs : i.keys = {} /\ ~i.escReleased /\ ~i.close}

\* one call of handleButtonClick in a frame with input i
handleButtonClick(i) ==
    /\ buttonReleased' = ClickReleased(i)
    /\ pc' = IF ClickResult(i) THEN "clicked" ELSE "frame"

\* a new frame with the cursor over a button of the open screen
ButtonFrame ==
    /\ pc \in {"frame", "clicked"}
    /\ \E i \in MouseInputs, t \in ClockValues :
        /\ (t - now) \in FrameTimes
        /\ i.mouseY \in MouseYs
        /\ now' = t
        /\ frameInput' = Pending(i)
        /\ handleButtonClick(i)
    /\ UNCHANGED <<state, running, sessionVars, ledgerVars>>

\* a new frame with the cursor over no button: no call
IdleFrame ==
    /\ pc \in {"frame", "clicked"}
    /\ \E i \in MouseInputs, t \in ClockValues :
        /\ (t - now) \in FrameTimes
        /\ i.mouseY = NoMouseY
        /\ now' = t
        /\ frameInput' = Pending(i)
    /\ pc' = "frame"
    /\ UNCHANGED <<state, running, buttonReleased, sessionVars, ledgerVars>>

\* the click has opened another screen, which has a button under the
\* cursor and calls handleButtonClick in the same frame
ScreenOpened ==
    /\ pc = "clicked"
    /\ \E i \in frameInput : handleButtonClick(i)
    /\ UNCHANGED <<state, running, frameInput, now, sessionVars, ledgerVars>>

NextClick ==
    \/ ButtonFrame
    \/ IdleFrame
    \/ ScreenOpened

SpecClick == InitClick /\ [][NextClick]_vars

(* ------------------------------- claims -------------------------------- *)
InSession == pc \in {"Game", "Paused", "SpawnFood", "SpawnBombs"}

\* a step of StartGame's loop that got past the pause and window-close tests
GameFrame == pc = "Game" /\ state' # StatePaused /\ state' # StateMainMenu
\* such a step in which the tick ran; direction' is the heading it used
TickStep == GameFrame /\ now' - lastUpdateTime >= TickInterval
\* the wrapped candidate head of the tick of a TickStep
CandidateHead == wrapPosition(newHeadOf(segments, direction', gridSize), gridSize)

KeyDirection(k) ==
    CASE k = KeyUp -> DirUp
      [] k = KeyDown -> DirDown
      [] k = KeyLeft -> DirLeft
      [] OTHER -> DirRight

Edges ==
    {<<StateMainMenu, StateGame>>, <<StateMainMenu, StateSettings>>,
     <<StateMainMenu, StateHighScores>>,
     <<StateGame, StatePaused>>, <<StateGame, StateGameOver>>,
     <<StateGame, StateMainMenu>>,
     <<StatePaused, StateGame>>, <<StatePaused, StateMainMenu>>,
     <<StateGameOver, StateMainMenu>>, <<StateSettings, StateMainMenu>>,
     <<StateHighScores, StateMainMenu>>}

\* C1: the controller's state is always one of the six states, it changes
\* only along the listed edges, and the process terminates only from
\* MainMenu.
C1_Transitions ==
    [][/\ state' \in GameStates
       /\ state' # state => <<state, state'>> \in Edges
       /\ pc' = "Exit" => state' = StateMainMenu]_vars

\* a session has ended in GameOver and another session is being played
C1_Witness == state = StateGameOver /\ pc = "GameOver" /\ points > 0

\* C2: the heading a tick uses is never the opposite of the heading the
\* previous tick used.  Stated for two ticks in consecutive frames of a
\* session that was never paused: the earlier frame ended with a tick
\* (lastUpdateTime = now), so direction is the heading that tick used.
C2_NoReversalBetweenTicks ==
    [][(TickStep /\ frameInput = Poll /\ lastUpdateTime = now /\ totalPauseTime = 0)
          => direction' # Opposite(direction)]_vars

\* C3: a single direction request k processed while the heading is H
\* leaves H when k is -H and sets the heading to k otherwise.
C3_SingleRequest ==
    [][\A k \in ArrowKeys :
          (pc = "keys" /\ frameInput = Pending(MkInput({k}, FALSE, FALSE, NoMouseY, FALSE)))
            => direction' = IF KeyDirection(k) = Opposite(direction)
                            THEN direction
                            ELSE KeyDirection(k)]_vars

\* Down was requested while heading Up, and the heading is still Up
C3_Witness ==
    /\ pc = "keysDone"
    /\ frameInput = Pending(MkInput({KeyDown}, FALSE, FALSE, NoMouseY, FALSE))
    /\ direction = DirUp

\* the candidate head of a TickStep equals a segment with an index in idx
SelfHit(idx) == \E k \in idx : CandidateHead = segments[k]
\* index of the food the candidate head of a TickStep hits, 0 when none
Eaten == EatenIndex(CandidateHead, foods)
\* a TickStep without fatal collision
LiveTick == TickStep /\ state' # StateGameOver

NonTailIndexes ==
    IF Eaten = 0 THEN 2..(Len(segments) - 1) ELSE 2..Len(segments)

C5_DistinctSegments ==
    InSession =>
        \A a, b \in 1..Len(segments) : a # b => segments[a] # segments[b]

\* C6: during a session the number of segments is 2 plus the points; it
\* rises by one on every tick that eats and never falls.
C6_GrowthLaw ==
    [][/\ InSession' => Len(segments') = 2 + points'
       /\ (InSession /\ InSession') =>
             /\ Len(segments') >= Len(segments)
             /\ points' >= points
       /\ (LiveTick /\ Eaten > 0) =>
             /\ Len(segments') = Len(segments) + 1
             /\ points' = points + 1]_vars

\* food was eaten twice, the second time while other food remained
C6_Witness ==
    /\ pc = "Game"
    /\ points = 2
    /\ Len(segments) = 4
    /\ Len(foods) >= 1
    /\ segments[1] = segments[2]

\* C7: a tick that eats adds one point, removes exactly the food hit, and
\* makes the body the candidate head followed by the whole previous body.
C7_EatingTick ==
    [][(LiveTick /\ Eaten > 0) =>
          /\ points' = points + 1
          /\ foods' = RemoveAt(foods, Eaten)
          /\ segments' = <<CandidateHead>> \o segments]_vars

\* C8: a tick without fatal collision that eats nothing, the first tick of
\* a session included, makes the body the candidate head followed by the
\* previous body without its last segment.
C8_MovingTick ==
    [][(LiveTick /\ Eaten = 0) =>
          segments' = <<CandidateHead>> \o SubSeq(segments, 1, Len(segments) - 1)]_vars

\* r is the wrap of coordinate c on an axis of length bound
WrapAxisOK(c, r, bound) ==
    /\ c >= bound => r = 0
    /\ c < 0 => r = bound - gridSize
    /\ (c >= 0 /\ c < bound) => r = c
    /\ r >= 0
    /\ r < bound

WrapOK(p, r) ==
    /\ WrapAxisOK(p[1], r[1], screenWidth)
    /\ WrapAxisOK(p[2], r[2], screenHeight)

\* coordinates around both ends of an axis
ProbeCoords(bound) == {-gridSize, -1, 0, bound - 1, bound, bound + gridSize}
ProbePositions ==
    {<<x, y>> : x \in ProbeCoords(screenWidth), y \in ProbeCoords(screenHeight)}

\* C9: wrapPosition maps each axis as stated, its result lies on the
\* screen, and so does every segment of the snake in every state.
C9_WrapInBounds ==
    [][/\ \A k \in 1..Len(segments') : WrapOK(segments'[k], segments'[k])
       /\ (LiveTick /\ segments' # segments) =>
             WrapOK(newHeadOf(segments, direction', gridSize), segments'[1])
       /\ \A p \in ProbePositions : WrapOK(p, wrapPosition(p, gridSize))]_vars

\* the head has wrapped from above the top edge to the bottom row
C9_Witness ==
    /\ InSession
    /\ Len(segments) >= 2
    /\ segments[1][2] = screenHeight - gridSize
    /\ segments[2][2] < gridSize

\* C10: the spawn scheduler always terminates.  Stated as what termination
\* needs: while a placement loop is running, some cell the random draw can
\* produce is unoccupied (the loops have no other exit).
C10_SpawnCanPlace ==
    pc \in {"SpawnFood", "SpawnBombs"} => \E c \in GridCells : c \notin occupied

\* a step of the spawn scheduler that starts a regeneration
Regenerates == pc = "Game" /\ pc' = "SpawnFood"
\* the step on which the spawn scheduler returns
SpawnDone == pc \in {"SpawnFood", "SpawnBombs"} /\ pc' = "Game"
\* elapsed active play time: wall time since session start minus paused time
ActiveTime == now - startTime - totalPauseTime

Dist(a, b) == IF a >= b THEN a - b ELSE b - a
Min(a, b) == IF a <= b THEN a ELSE b
\* cells a and b are the same cell or 8-neighbours
Adjacent(a, b) == Dist(a[1], b[1]) <= gridSize /\ Dist(a[2], b[2]) <= gridSize
\* all placed items, foods first
Items(fs, bs) == fs \o bs

\* C11: when the spawn scheduler returns, no placed food or hazard overlaps
\* (by the rectangle test of the collision checks) a segment of the snake
\* passed as exclusion, no two placed items share a cell, and the
\* exclusions hold every segment, the head prepended by an eating tick
\* included.
C11_SpawnNoOverlap ==
    [][/\ Regenerates =>
             /\ SegmentKeys(segments') \subseteq occupied'
             /\ (Eaten > 0 => CandidateHead \in occupied')
       /\ SpawnDone =>
             /\ \A k \in 1..Len(foods'), s \in 1..Len(segments') :
                   ~checkFoodCollision(segments'[s], gridSize, foods'[k])
             /\ \A k \in 1..Len(bombs'), s \in 1..Len(segments') :
                   ~checkBombCollision(segments'[s], gridSize, bombs'[k])
             /\ \A a, b \in 1..Len(Items(foods', bombs')) :
                   a # b => Items(foods', bombs')[a] # Items(foods', bombs')[b]]_vars

\* C12: during a session no two food items are in the same or in
\* 8-neighbouring cells, no hazard is in the cell or an 8-neighbouring cell
\* of a food item, and hazards are placed only after all the food.
C12_ItemsApart ==
    [][/\ InSession' =>
             /\ \A a, b \in 1..Len(foods') :
                   a # b => ~Adjacent(foods'[a], foods'[b])
             /\ \A a \in 1..Len(foods'), b \in 1..Len(bombs') :
                   ~Adjacent(foods'[a], bombs'[b])
       /\ (InSession /\ Len(bombs') > Len(bombs)) => Len(foods) = foodCount]_vars

\* two food items and a hazard are live
C12_Witness == pc = "Game" /\ Len(foods) = 2 /\ Len(bombs) = 1

\* elapsed times around every step of the food count
ProbeTimes ==
    {k * FoodPeriod + r : k \in 0..(maxFoodCount + 1), r \in {0, 1, FoodPeriod - 1}}

\* C13: a regeneration at elapsed active play time t requests and places
\* min(6, floor(t/10 s) + 1) food items; the count is at least 1, at most 6
\* and non-decreasing in t.
C13_FoodCount ==
    [][/\ Regenerates =>
             foodCount' = Min(maxFoodCount, ActiveTime' \div FoodPeriod + 1)
       /\ SpawnDone => Len(foods') = foodCount'
       /\ Regenerates =>
             \A t \in ProbeTimes :
                /\ FoodCountAt(t) = Min(maxFoodCount, t \div FoodPeriod + 1)
                /\ FoodCountAt(t) >= 1
                /\ FoodCountAt(t) <= maxFoodCount
                /\ \A u \in ProbeTimes : t < u => FoodCountAt(t) <= FoodCountAt(u)]_vars

\* a regeneration requests two items in a session that was paused: the
\* stall of one food period was active play time
C13_Witness == pc = "SpawnFood" /\ foodCount = 2 /\ totalPauseTime > 0

\* C14: a regeneration requests and places floor(foodCount/2) hazards when
\* foodCount > 1 and none when foodCount = 1; a hazard is live only after
\* 10 s of active play time, and never more than 3 are.
C14_BombCount ==
    [][/\ Regenerates =>
             bombCount' = IF foodCount' > 1 THEN foodCount' \div 2 ELSE 0
       /\ SpawnDone => Len(bombs') = bombCount'
       /\ InSession' =>
             /\ Len(bombs') <= 3
             /\ Len(bombs') > 0 => ActiveTime' >= FoodPeriod
       /\ Regenerates =>
             \A fc \in 1..maxFoodCount :
                /\ BombCountFor(fc) = (IF fc > 1 THEN fc \div 2 ELSE 0)
                /\ BombCountFor(fc) <= 3]_vars

\* one of two food items was eaten and the hazard placed with them is live
C14_Witness ==
    /\ InSession
    /\ foodCount = 2
    /\ Len(foods) = 1
    /\ Len(bombs) = 1

\* C20: the duration a tick records is the wall time since session start
\* minus the total time spent in Paused: a pause starts its timestamp, a
\* resume adds the time since then to the total, and nothing else changes
\* the total during a session.
C20_DurationExcludesPause ==
    [][/\ (pc = "Game" /\ pc' = "Paused") => pauseStartTime' = now'
       /\ (pc = "Paused" /\ pc' = "Game") =>
             totalPauseTime' = totalPauseTime + (now' - pauseStartTime)
       /\ (InSession /\ InSession' /\ ~(pc = "Paused" /\ pc' = "Game")) =>
             totalPauseTime' = totalPauseTime
       /\ (InSession /\ duration' # duration) =>
             duration' = (now' - startTime') - totalPauseTime'
       /\ ((LiveTick /\ pc' = "Game") \/ SpawnDone) =>
             duration' = (now' - startTime') - totalPauseTime']_vars

\* a tick has recorded the duration of a session that was paused
C20_Witness ==
    /\ pc = "Game"
    /\ totalPauseTime > 0
    /\ lastUpdateTime = now
    /\ duration > 0
    /\ duration = now - startTime - totalPauseTime
    /\ duration < now - startTime

\* the step on which Run enters openGameOverScreen
Admitting == pc = "Run" /\ state = StateGameOver /\ pc' = "GameOver"
\* the entry of the session that has just ended
SessionEntry == [Score |-> points, Duration |-> duration, Date |-> Today]
\* how often entry e occurs in ledger l
Count(l, e) == Cardinality({k \in 1..Len(l) : l[k] = e})
\* the points of the lowest-ranked entry of a ledger that is not empty
LowestPoints(l) ==
    CHOOSE m \in {l[k].Score : k \in 1..Len(l)} : \A k \in 1..Len(l) : m <= l[k].Score
\* the rule of admission for the session that has just ended
Qualifies == Len(highScores) < 3 \/ points > LowestPoints(highScores)
\* adjacent entries are in the order of the ranking
Ranked(l) ==
    \A k \in 1..(Len(l) - 1) :
        \/ l[k].Score > l[k + 1].Score
        \/ l[k].Score = l[k + 1].Score /\ l[k].Duration <= l[k + 1].Duration

\* C15: a session enters GameOver only by a fatal tick, the next step
\* evaluates the admission once with the session's points and duration,
\* and no other step (pause, resume, quit from pause, window close, menus)
\* changes the ledger or its file.
C15_AdmissionOnce ==
    [][/\ (highScores' # highScores \/ savedScores' # savedScores) => Admitting
       /\ (state' = StateGameOver /\ (state # StateGameOver \/ pc' = "Run")) =>
             (pc = "Game" /\ state = StateGame /\ pc' = "Run")
       /\ (pc = "Run" /\ state = StateGameOver) =>
             /\ Admitting
             /\ points' = points
             /\ duration' = duration
             /\ Count(highScores', SessionEntry) =
                   Count(highScores, SessionEntry) + (IF Qualifies THEN 1 ELSE 0)
       /\ (pc = "GameOver" /\ state' # state) => state' = StateMainMenu]_vars

\* a session with one point has ended by a fatal collision and has taken
\* the place of an entry of the full file of an earlier day
C15_Witness ==
    /\ pc = "GameOver"
    /\ points = 1
    /\ Len(highScores) = 3
    /\ Count(highScores, SessionEntry) = 1
    /\ Cardinality({k \in 1..3 : highScores[k].Date = Earlier}) = 2

\* C16: a session is admitted exactly when the ledger has fewer than 3
\* entries or its points are strictly greater than those of the
\* lowest-ranked entry; otherwise, equal points included, the ledger and
\* the file stay as they are.
C16_AdmissionRule ==
    [][Admitting =>
          /\ Qualifies =>
                /\ Count(highScores', SessionEntry) = Count(highScores, SessionEntry) + 1
                /\ savedScores' = SaveHighScores(highScores')
          /\ ~Qualifies => UNCHANGED ledgerVars
          /\ (Len(highScores) = 3 /\ points = LowestPoints(highScores)) =>
                UNCHANGED ledgerVars]_vars

\* a session with the points of the lowest-ranked entry and a shorter
\* duration was evaluated and is not in the full ledger
C16_Witness ==
    /\ pc = "GameOver"
    /\ Len(highScores) = 3
    /\ points = highScores[3].Score
    /\ duration < highScores[3].Duration
    /\ \A k \in 1..3 :
          ~(highScores[k].Score = points /\ highScores[k].Duration = duration)

\* the ledger of the example of the claim, and the entry admitted to it
ExampleLedger ==
    << [Score |-> 50, Duration |-> 0, Date |-> Earlier],
       [Score |-> 40, Duration |-> 0, Date |-> Earlier],
       [Score |-> 30, Duration |-> 0, Date |-> Earlier] >>
ExampleEntry == [Score |-> 35, Duration |-> 0, Date |-> Today]

\* C17: an admission puts the new entry at its rank among the old entries,
\* which keep their order and their values, and the result has
\* min(3, n+1) entries: when the ledger was full only its last entry goes.
C17_AdmitResult ==
    [][(Admitting /\ Qualifies) =>
          /\ Len(highScores') = Min(3, Len(highScores) + 1)
          /\ Ranked(highScores')
          /\ \E k \in 1..Len(highScores') :
                /\ highScores'[k] = SessionEntry
                /\ RemoveAt(highScores', k) =
                      SubSeq(highScores, 1, Len(highScores') - 1)
          /\ LET r == UpdateHighScores(ExampleLedger, ExampleEntry)
             IN  /\ Len(r) = 3
                 /\ r[1] = ExampleLedger[1]
                 /\ r[2] = ExampleLedger[2]
                 /\ r[3] = ExampleEntry]_vars

\* the session's entry is second of three, between an entry with more
\* points and an entry of the earlier file with the same points and a
\* longer duration
C17_Witness ==
    /\ pc = "GameOver"
    /\ Len(highScores) = 3
    /\ highScores[2] = SessionEntry
    /\ highScores[1].Score > points
    /\ highScores[3].Score = points
    /\ highScores[3].Duration > duration
    /\ highScores[3].Date = Earlier

\* C18: the ledger is ranked in every state: each adjacent pair has
\* falling points, or equal points and a duration that does not fall.
C18_LedgerRanked == Ranked(highScores)

\* a full ledger whose last two entries have equal points, the session's
\* entry before one with a longer duration
C18_Witness ==
    /\ pc = "GameOver"
    /\ Len(highScores) = 3
    /\ highScores[2] = SessionEntry
    /\ highScores[3].Score = highScores[2].Score
    /\ highScores[3].Duration > highScores[2].Duration
    /\ highScores[3].Date = Today

\* C19: the ledger and its file never hold more than 3 entries.
C19_LedgerCapacity == Len(highScores) <= 3 /\ Len(savedScores) <= 3

\* every entry of the full file of an earlier day has been replaced
C19_Witness ==
    /\ pc = "GameOver"
    /\ Len(highScores) = 3
    /\ \A k \in 1..3 : highScores[k].Date = Today
    /\ \E k \in 1..3 : savedScores[k].Date = Today /\ savedScores[k].Score > 1

\* the snake StartGame creates
FreshSnake ==
    << <<screenWidth \div 2, screenHeight \div 2>>,
       <<screenWidth \div 2 - gridSize, screenHeight \div 2>> >>

C22_TicksFollowTime ==
    [][(TickStep /\ lastUpdateTime >= startTime) =>
          now' - lastUpdateTime < 2 * TickInterval]_vars

\* the step of NewGame
Loading == pc = "NewGame"
\* file k rows long has a row whose number of fields differs from row 1's
FieldCountsDiffer(file) == \E a, b \in 1..Len(file) : file[a].Fields # file[b].Fields

\* C23: when the store is missing, cannot be opened or cannot be parsed,
\* the game starts in MainMenu, running, with an empty ledger; it starts
\* in MainMenu whatever the store holds.
C23_LoadFailureEmpty ==
    [][Loading =>
          /\ pc' = "Run"
          /\ state' = StateMainMenu
          /\ running'
          /\ (storeState # StorePresent \/ FieldCountsDiffer(savedScores)) =>
                highScores' = <<>>
          /\ UNCHANGED <<savedScores, storeState>>]_vars

\* the game has started with an empty ledger on a file that cannot be
\* opened and holds a well-formed row
C23_Witness ==
    /\ pc = "Run"
    /\ running
    /\ state = StateMainMenu
    /\ storeState = StoreUnreadable
    /\ \E k \in 1..Len(savedScores) : WellFormed(savedScores[k])
    /\ highScores = <<>>

\* C24: loading a file gives exactly its well-formed rows in file order,
\* each malformed row skipped on its own.
C24_MalformedRowsSkipped ==
    [][(Loading /\ storeState = StorePresent) =>
          highScores' = ParsedRows(savedScores)]_vars

\* row is the record of entry e: three fields, the points, the duration to
\* the nearest tenth of a second, the date
RecordOf(row, e) ==
    /\ row.Fields = 3
    /\ row.ScoreOk
    /\ row.DurationOk
    /\ row.Score = e.Score
    /\ 2 * Dist(row.Duration * UnitsPerTenth, e.Duration) <= UnitsPerTenth
    /\ row.Date = e.Date

\* C25: every admitted insert overwrites the store with one record per
\* entry of the updated ledger in rank order, and loading the store again
\* gives a ledger of the same length, order, points and dates.
C25_StoreMirrorsLedger ==
    [][(Admitting /\ Qualifies) =>
          /\ storeState' = StorePresent
          /\ Len(savedScores') = Len(highScores')
          /\ \A k \in 1..Len(highScores') : RecordOf(savedScores'[k], highScores'[k])
          /\ LET reloaded == NewGameScores(storeState', savedScores')
             IN  /\ Len(reloaded) = Len(highScores')
                 /\ \A k \in 1..Len(reloaded) :
                       /\ reloaded[k].Score = highScores'[k].Score
                       /\ reloaded[k].Date = highScores'[k].Date]_vars

\* a full ledger was saved, the session's entry with a duration that is
\* not a whole number of tenths
C25_Witness ==
    /\ pc = "GameOver"
    /\ Len(highScores) = 3
    /\ Len(savedScores) = 3
    /\ \E k \in 1..3 :
          /\ highScores[k] = SessionEntry
          /\ highScores[k].Duration = 2
          /\ savedScores[k].Duration = 1
          /\ savedScores[k].Date = Today

\* the candidate head of a TickStep overlaps item position p
HeadOverlaps(p) ==
    /\ CandidateHead[1] < p[1] + gridSize
    /\ CandidateHead[1] + gridSize > p[1]
    /\ CandidateHead[2] < p[2] + gridSize
    /\ CandidateHead[2] + gridSize > p[2]

\* C26: a tick whose candidate head hits a live hazard ends the session,
\* and every tick that ends the session leaves the points, the body, the
\* food set and the hazard set as they were, also when the candidate head
\* hits a food item too.
C26_FatalTickChangesNothing ==
    [][/\ (TickStep /\ \E k \in 1..Len(bombs) : HeadOverlaps(bombs[k])) =>
             (state' = StateGameOver /\ pc' = "Run")
       /\ (TickStep /\ state' = StateGameOver) =>
             UNCHANGED <<points, duration, segments, foods, bombs>>]_vars

\* a tick has just ended the session on a hazard, with both food items
\* still live
C26_Witness ==
    /\ state = StateGameOver
    /\ pc = "Run"
    /\ Len(segments) >= 2
    /\ Len(foods) = 2
    /\ \E k \in 1..Len(bombs) :
          CheckCollisionRecs(
              wrapPosition(newHeadOf(segments, direction, gridSize), gridSize),
              gridSize, bombs[k], gridSize)

\* the frame still running has the escape key pressed
EscapeInFrame == \E i \in frameInput : KeyEscape \in i.keys
\* a step of the play loop with an effect only a tick has
TickEffect ==
    /\ pc = "Game"
    /\ \/ segments' # segments
       \/ foods' # foods
       \/ bombs' # bombs
       \/ points' # points
       \/ duration' # duration
       \/ state' = StateGameOver
       \/ pc' = "SpawnFood"

\* C27: a pause is taken at the top of a frame: the step that pauses runs
\* no tick and changes no heading, the placement loops of a tick are never
\* left for the pause screen, the pause screen and the resume leave body,
\* heading, food, hazards and points alone, and after a resume no tick runs
\* before one tick interval has passed.
C27_PauseAtFrameTop ==
    [][/\ (pc = "Game" /\ pc' = "Paused") =>
             /\ state' = StatePaused
             /\ ~TickEffect
             /\ UNCHANGED <<direction, lastUpdateTime>>
       /\ (pc = "Game" /\ EscapeInFrame) => pc' = "Paused"
       /\ pc \in {"SpawnFood", "SpawnBombs"} => pc' \in {"SpawnFood", "SpawnBombs", "Game"}
       /\ pc = "Paused" => UNCHANGED <<segments, direction, foods, bombs, points>>
       /\ (pc = "Paused" /\ pc' = "Game") => lastUpdateTime' = now'
       /\ TickEffect => now' - lastUpdateTime >= TickInterval]_vars

\* a session with a point has just been resumed
C27_Witness ==
    /\ pc = "Game"
    /\ state = StateGame
    /\ frameInput # Poll
    /\ points > 0
    /\ totalPauseTime > 0
    /\ lastUpdateTime = now

\* C28: one press of the pause key in the pause screen resumes the session
\* and the session stays in Play: the play loop, continuing the frame whose
\* escape press the pause screen has just taken as the resume, does not
\* pause again.
C28_ResumeStaysInPlay ==
    [][(pc = "Game" /\ state = StateGame /\ EscapeInFrame) => state' = StateGame]_vars

\* the number of food items a TickStep leaves after its collision processing
FoodLeft == Len(foods) - (IF Eaten > 0 THEN 1 ELSE 0)
\* sequence t is sequence s without its k-th element (s itself when k = 0)
Without(s, k, t) ==
    IF k = 0
    THEN t = s
    ELSE /\ Len(t) = Len(s) - 1
         /\ \A j \in 1..Len(t) : t[j] = (IF j < k THEN s[j] ELSE s[j + 1])

C30_SegmentsOnGrid ==
    InSession =>
        \A k \in 1..Len(segments) :
            segments[k][1] % gridSize = 0 /\ segments[k][2] % gridSize = 0

\* C31: when a screen routine returns to Run the state is never Paused:
\* the pause state is set only by the play loop, the pause screen is left
\* only with the state Play or MainMenu, and an iteration of Run that does
\* not end the program enters a screen routine.
C31_NeverReturnsPaused ==
    [][/\ pc' = "Run" => state' \in GameStates \ {StatePaused}
       /\ (state' = StatePaused /\ state # StatePaused) => pc = "Game"
       /\ (pc = "Paused" /\ pc' # "Paused") => state' \in {StateGame, StateMainMenu}
       /\ (pc = "Run" /\ pc' # "Exit") => pc' # "Run"]_vars

\* the quit button of the pause screen has returned a session to Run
C31_Witness ==
    /\ pc = "Run"
    /\ state = StateMainMenu
    /\ running
    /\ Len(segments) > 0

\* a step on which a tick without fatal collision completes: a tick that
\* does not regenerate, or the return of the spawn scheduler
TickCompletes == (LiveTick /\ ~Regenerates) \/ SpawnDone
\* no tick of the session has had an effect yet
Untouched == points = 0 /\ duration = 0 /\ bombs = <<>> /\ segments = FreshSnake

FirstFrame == pc = "Game" /\ frameInput # Poll /\ lastUpdateTime = 0
\* the step on which openPauseScreen returns true
Resumes == pc = "Paused" /\ pc' = "Game"
\* the step ends a frame of the play loop in rl.EndDrawing: the frame was
\* drawn and the input of the next frame will be polled
FrameDrawn == pc = "Game" /\ frameInput' = Poll

DeafScreens == {"Settings", "HighScores", "GameOver", "Paused"}
\* the frame the step ends with is still running and has input with property P
CloseKept == \E i \in frameInput' : i.close
\* the input that left a screen: the frame goes on in Run or in StartGame
BackClicked(top) == \E i \in frameInput' : i.mouseDown /\ IsHovered(top, i.mouseY)
EscReleasedKept == \E i \in frameInput' : i.escReleased
EscPressedKept == \E i \in frameInput' : KeyEscape \in i.keys
\* the clock reading can still advance
ClockRuns == \E t \in ClockValues : (t - now) \in FrameTimes

\* C34: no step of the settings, high-score, game-over or pause screen ends
\* the program or stops the run loop, whatever the input of its frame, a
\* window-close request included, and each of these screens is left only in
\* a frame with its own leaving input and no close request; a close request
\* can reach the main menu and the play loop (the latter is tested in the
\* sessions no tick has changed yet): in the main menu it stops the run
\* loop, which then ends the program, and in the play loop it sets the
\* state to MainMenu and stops the run loop.
C34_CloseOnlyInMenuAndPlay ==
    [][/\ pc \in DeafScreens =>
             /\ running' = running
             /\ pc' # "Exit"
             /\ (pc' # pc \/ state' # state) =>
                   /\ ~CloseKept
                   /\ pc = "Settings" => (EscReleasedKept \/ BackClicked(SettingsBackY))
                   /\ pc = "HighScores" => (EscReleasedKept \/ BackClicked(HighScoresBackY))
                   /\ pc = "GameOver" => BackClicked(GameOverExitY)
                   /\ pc = "Paused" =>
                         \/ EscPressedKept
                         \/ BackClicked(PauseResumeY)
                         \/ BackClicked(PauseQuitY)
       /\ (pc = "MainMenu" /\ frameInput = Poll /\ ClockRuns) =>
             ENABLED (openMainMenu /\ CloseKept)
       /\ (pc = "MainMenu" /\ CloseKept) =>
             (running' = FALSE /\ pc' = "Run" /\ state' = StateMainMenu)
       /\ (pc = "Run" /\ ~running) => pc' = "Exit"
       /\ (pc = "Game" /\ frameInput = Poll /\ ClockRuns /\ Untouched) =>
             ENABLED (StartGame /\ CloseKept)
       /\ (pc = "Game" /\ CloseKept) =>
             (running' = FALSE /\ pc' = "Run" /\ state' = StateMainMenu)]_vars

\* a window-close request has ended a session: the play loop has returned
\* to Run with the run loop stopped
C34_Witness ==
    /\ pc = "Run"
    /\ state = StateMainMenu
    /\ ~running
    /\ Len(segments) > 0
    /\ \E i \in frameInput : i.close

\* handleButtonClick has returned true on this step
Activated == buttonReleased /\ ~buttonReleased'
\* handleButtonClick was called on this step
Called == pc' = "clicked" \/ \E i \in frameInput' : i.mouseY \in MouseYs
\* the mouse button is down in the frame the step ends with
ButtonDown == \E i \in frameInput' : i.mouseDown
\* the call before this step was made with the mouse button down
HeldSinceCall == \E i \in frameInput : i.mouseDown /\ i.mouseY \in MouseYs

\* C35: handleButtonClick returns true exactly when the button is down and
\* the latch is set, and that clears the latch; the latch is set again only
\* by a call made with the button up; so a call that follows a call made
\* with the button down returns false, and so does the call a newly opened
\* screen makes in the frame of the click that opened it.
C35_OneActivationPerPress ==
    [][/\ pc' = "clicked" <=> Activated
       /\ Activated => (Called /\ ButtonDown)
       /\ (Called /\ ButtonDown) => ~buttonReleased'
       /\ (~buttonReleased /\ buttonReleased') => (Called /\ ~ButtonDown)
       /\ HeldSinceCall => ~Activated
       /\ pc = "clicked" => ~Activated]_vars

\* the click of the first frame after the start has opened a screen whose
\* button under the cursor was not activated by the call made in that frame
C35_Witness ==
    /\ pc = "frame"
    /\ ~buttonReleased
    /\ now = 1
    /\ \E i \in frameInput : i.mouseDown /\ i.mouseY = GameOverExitY

====
